---- MODULE Spec2Model ----
(***************************************************************************)
(* A model of scripts/azure-config-check.py: the AzureConfigChecker rule   *)
(* engine (security rules, naming conventions, hardcoded values, resource  *)
(* dependencies), its error/warning buckets, and the command-line runner   *)
(* main().                                                                 *)
(*                                                                         *)
(* Text is modelled character by character: a str is a tuple of            *)
(* one-character strings, so that str.endswith, the `in` operator and the  *)
(* regular expressions of the script are computed, not assumed.            *)
(***************************************************************************)
EXTENDS Integers, Sequences, FiniteSets, TLC

(***************************************************************************)
(* Characters and character classes of Python's re module.                 *)
(***************************************************************************)
LowerSeq == <<"a","b","c","d","e","f","g","h","i","j","k","l","m","n","o","p","q","r","s","t","u","v","w","x","y","z">>

UpperSeq == <<"A","B","C","D","E","F","G","H","I","J","K","L","M","N","O","P","Q","R","S","T","U","V","W","X","Y","Z">>

LowerLetters == {LowerSeq[n] : n \in 1..Len(LowerSeq)}

UpperLetters == {UpperSeq[n] : n \in 1..Len(UpperSeq)}

Digits == {"0", "1", "2", "3", "4", "5", "6", "7", "8", "9"}

\* str.lower() of one character
ToLower == [c \in UpperLetters |-> LowerSeq[CHOOSE n \in 1..Len(UpperSeq) : UpperSeq[n] = c]]

\* str.upper() of one character
ToUpper == [c \in LowerLetters |-> UpperSeq[CHOOSE n \in 1..Len(LowerSeq) : LowerSeq[n] = c]]

Lower(c) == IF c \in UpperLetters THEN ToLower[c] ELSE c

Upper(c) == IF c \in LowerLetters THEN ToUpper[c] ELSE c

\* \s
Whitespace == {" ", "\t", "\n", "\r", "\f"}

\* \w
WordChars == LowerLetters \cup UpperLetters \cup Digits \cup {"_"}

\* [a-z0-9]
LowerAlnum == LowerLetters \cup Digits

\* [a-z0-9-]
LowerAlnumDash == LowerAlnum \cup {"-"}

(***************************************************************************)
(* Regular expressions.  A pattern is a sequence of alternatives (a|b);    *)
(* an alternative is a sequence of items; an item is a literal string, a   *)
(* repeated character class  [..]{min,max}, [^..]{min,max}, .{min,max},    *)
(* an anchor ^ or $, or a group parenthesis.  max = Inf is "no limit".     *)
(***************************************************************************)
Inf == 0 - 1

Lit(str) == [kind |-> "lit", str |-> str, cls |-> {}, min |-> 0, max |-> 0]

Set(cls, min, max) == [kind |-> "set", str |-> <<>>, cls |-> cls, min |-> min, max |-> max]

NotSet(cls, min, max) == [kind |-> "nset", str |-> <<>>, cls |-> cls, min |-> min, max |-> max]

Dot(min, max) == [kind |-> "any", str |-> <<>>, cls |-> {}, min |-> min, max |-> max]

Bol == [kind |-> "bol", str |-> <<>>, cls |-> {}, min |-> 0, max |-> 0]

Eol == [kind |-> "eol", str |-> <<>>, cls |-> {}, min |-> 0, max |-> 0]

Open == [kind |-> "open", str |-> <<>>, cls |-> {}, min |-> 0, max |-> 0]

Close == [kind |-> "close", str |-> <<>>, cls |-> {}, min |-> 0, max |-> 0]

\* flags argument of re.search / re.match
NoFlags == [ignorecase |-> FALSE, dotall |-> FALSE]

IgnoreCase == [ignorecase |-> TRUE, dotall |-> FALSE]

IgnoreCaseDotAll == [ignorecase |-> TRUE, dotall |-> TRUE]

\* one literal character of the pattern against one character of the text
CharEq(a, b, flags) == a = b \/ (flags.ignorecase /\ Lower(a) = Lower(b))

\* one character of the text against a character class or the dot
CharIn(item, c, flags) ==
  CASE item.kind = "any" -> flags.dotall \/ c # "\n"
    [] item.kind = "set" ->
         c \in item.cls \/ (flags.ignorecase /\ (Lower(c) \in item.cls \/ Upper(c) \in item.cls))
    [] item.kind = "nset" ->
         ~(c \in item.cls \/ (flags.ignorecase /\ (Lower(c) \in item.cls \/ Upper(c) \in item.cls)))
    [] OTHER -> FALSE

\* the literal str occurs in s right after position p
LitAt(str, s, p, flags) ==
  /\ p + Len(str) <= Len(s)
  /\ \A j \in 1..Len(str) : CharEq(str[j], s[p + j], flags)

\* how many characters after position p belong to the item's class (at most cap)
RunLen(item, s, p, flags, cap) ==
  LET last == IF p + cap < Len(s) THEN p + cap ELSE Len(s)
      stop == {q \in (p + 1)..last : ~CharIn(item, s[q], flags)}
  IN  IF stop = {} THEN last - p
      ELSE (CHOOSE q \in stop : \A r \in stop : q <= r) - p - 1

RepCap(item, s, p) == IF item.max = Inf THEN Len(s) - p ELSE item.max


\* The positions reachable from the positions P by matching one item.
StepItem(item, s, P, flags) ==
  CASE item.kind = "lit" -> {p + Len(item.str) : p \in {q \in P : LitAt(item.str, s, q, flags)}}
    [] item.kind = "bol" -> P \cap {0}
    [] item.kind = "eol" ->
         {p \in P : p = Len(s) \/ (p = Len(s) - 1 /\ s[Len(s)] = "\n")}
    [] item.kind \in {"open", "close"} -> P
    [] OTHER ->
         UNION {LET r == RunLen(item, s, p, flags, RepCap(item, s, p))
                IN  IF r < item.min THEN {} ELSE (p + item.min)..(p + r) : p \in P}

\* The positions where a match of the items that starts in P can end.
Ends(items, s, P, flags) ==
  LET reach[k \in 0..Len(items)] ==
        IF k = 0 THEN P ELSE StepItem(items[k], s, reach[k - 1], flags)
  IN  reach[Len(items)]

\* bool(re.search(pattern, s, flags)): some alternative matches somewhere
Search(pattern, s, flags) ==
  \E a \in 1..Len(pattern) : Ends(pattern[a], s, 0..Len(s), flags) # {}

\* bool(re.match(pattern, s)): some alternative matches at the start of s
Match(pattern, s, flags) ==
  \E a \in 1..Len(pattern) : Ends(pattern[a], s, {0}, flags) # {}

(***************************************************************************)
(* The match object: re's backtracking search, greedy quantifiers first,   *)
(* recording the positions of the group parentheses in caps.               *)
(***************************************************************************)
NoMatch == [ok |-> FALSE, start |-> 0, end |-> 0, caps |-> <<>>]

\* the match of items[k..] at position p (bt[k, p]), for the whole pattern at start
MatchAt(items, s, start, flags) ==
  LET bt[k \in 1..(Len(items) + 1), p \in 0..Len(s)] ==
        IF k > Len(items) THEN [ok |-> TRUE, start |-> start, end |-> p, caps |-> <<>>]
        ELSE LET item == items[k] IN
          CASE item.kind = "lit" ->
                 IF LitAt(item.str, s, p, flags) THEN bt[k + 1, p + Len(item.str)] ELSE NoMatch
            [] item.kind = "bol" ->
                 IF p = 0 THEN bt[k + 1, p] ELSE NoMatch
            [] item.kind = "eol" ->
                 IF p = Len(s) \/ (p = Len(s) - 1 /\ s[Len(s)] = "\n") THEN bt[k + 1, p] ELSE NoMatch
            [] item.kind \in {"open", "close"} ->
                 LET rest == bt[k + 1, p]
                 IN  IF rest.ok THEN [rest EXCEPT !.caps = <<p>> \o @] ELSE NoMatch
            [] OTHER ->
                 \* a greedy quantifier: the longest repetition with which the rest matches
                 LET run  == RunLen(item, s, p, flags, RepCap(item, s, p))
                     good == {c \in item.min..run : bt[k + 1, p + c].ok}
                 IN  IF good = {} THEN NoMatch
                     ELSE bt[k + 1, p + (CHOOSE c \in good : \A d \in good : d <= c)]
  IN  bt[1, start]

\* re.search(pattern, s, pos): the leftmost match starting at or after pos
SearchFrom(items, s, pos, flags) ==
  LET starts == {p \in pos..Len(s) : MatchAt(items, s, p, flags).ok}
  IN  IF starts = {} THEN NoMatch
      ELSE MatchAt(items, s, CHOOSE p \in starts : \A q \in starts : p <= q, flags)

\* match.group(g)
Group(s, m, g) == SubSeq(s, m.caps[2 * g - 1] + 1, m.caps[2 * g])

\* re.findall(pattern, s) for a pattern with two groups: the pairs
\* (group 1, group 2) of the non-overlapping matches, left to right
FindAll(items, s, flags) ==
  LET rest[pos \in 0..(Len(s) + 1)] ==
        IF pos > Len(s) THEN <<>>
        ELSE LET m == SearchFrom(items, s, pos, flags)
             IN  IF ~m.ok THEN <<>>
                 ELSE <<<<Group(s, m, 1), Group(s, m, 2)>>>>
                      \o rest[IF m.end = m.start THEN m.end + 1 ELSE m.end]
  IN  rest[0]

\* needle in s  (Python's substring test, case-sensitive)
Contains(s, needle) == \E p \in 0..(Len(s) - Len(needle)) : LitAt(needle, s, p, NoFlags)

\* s.endswith(suffix)
EndsWith(s, suffix) ==
  /\ Len(suffix) <= Len(s)
  /\ SubSeq(s, Len(s) - Len(suffix) + 1, Len(s)) = suffix

(***************************************************************************)
(* AzureConfigChecker.__init__: the rule catalog.                          *)
(***************************************************************************)
\* .*
Star == Dot(0, Inf)

\* \s+
Spaces == Set(Whitespace, 1, Inf)

\* dict.get(key, default)
Get(dict, key, default) == IF key \in DOMAIN dict THEN dict[key] ELSE default

\* self.security_rules, in the dict's insertion order
security_rules == <<
  [name |-> "key_vault_access_policies",
   pattern |-> << <<Lit(<<"a","c","c","e","s","s","P","o","l","i","c","i","e","s">>), Star, Lit(<<"p","e","r","m","i","s","s","i","o","n","s">>), Star, Lit(<<"s","e","c","r","e","t","s">>),
                    Star, Lit(<<"[">>), Star, Lit(<<"g","e","t">>), Star, Lit(<<"l","i","s","t">>), Star, Lit(<<"]">>)>> >>,
   message |-> "Key Vault should use least privilege access policies",
   severity |-> "warning"],
  [name |-> "storage_account_secure_transfer",
   pattern |-> << <<Lit(<<"s","u","p","p","o","r","t","s","H","t","t","p","s","T","r","a","f","f","i","c","O","n","l","y">>), Star, Lit(<<"t","r","u","e">>)>> >>,
   message |-> "Storage accounts should require secure transfer (HTTPS)",
   severity |-> "error",
   required |-> TRUE],
  [name |-> "app_service_https_only",
   pattern |-> << <<Lit(<<"h","t","t","p","s","O","n","l","y">>), Star, Lit(<<"t","r","u","e">>)>> >>,
   message |-> "App Services should enforce HTTPS only",
   severity |-> "error",
   required |-> TRUE],
  [name |-> "managed_identity",
   pattern |-> << <<Lit(<<"i","d","e","n","t","i","t","y">>), Star, Lit(<<"t","y","p","e">>), Star, Lit(<<"S","y","s","t","e","m","A","s","s","i","g","n","e","d">>)>>,
                  <<Lit(<<"U","s","e","r","A","s","s","i","g","n","e","d">>)>> >>,
   message |-> "Resources should use managed identity instead of service principals",
   severity |-> "warning"],
  [name |-> "network_security_groups",
   pattern |-> << <<Lit(<<"s","e","c","u","r","i","t","y","R","u","l","e","s">>), Star, Lit(<<"a","c","c","e","s","s">>), Star, Lit(<<"A","l","l","o","w">>),
                    Star, Lit(<<"*">>), Star, Lit(<<"*">>)>> >>,
   message |-> "NSG rules should not allow unrestricted access (*:*)",
   severity |-> "error",
   invert |-> TRUE],
  [name |-> "sql_server_firewall",
   pattern |-> << <<Lit(<<"f","i","r","e","w","a","l","l","R","u","l","e","s">>), Star, Lit(<<"s","t","a","r","t","I","p","A","d","d","r","e","s","s">>), Star, Lit(<<"0",".","0",".","0",".","0">>),
                    Star, Lit(<<"e","n","d","I","p","A","d","d","r","e","s","s">>), Star, Lit(<<"2","5","5",".","2","5","5",".","2","5","5",".","2","5","5">>)>> >>,
   message |-> "SQL Server should not allow unrestricted firewall access (0.0.0.0-255.255.255.255)",
   severity |-> "error",
   invert |-> TRUE] >>

\* ^<prefix>[a-z0-9-]+$
PrefixDashPattern(prefix) == << <<Bol, Lit(prefix), Set(LowerAlnumDash, 1, Inf), Eol>> >>

\* ^st[a-z0-9]{2,22}$, the storage account pattern with the lower limit off by one
StorageAccountPatternFrom2 == << <<Bol, Lit(<<"s","t">>), Set(LowerAlnum, 2, 22), Eol>> >>

\* ^st[a-z0-9]{3,22}$
StorageAccountPattern == << <<Bol, Lit(<<"s","t">>), Set(LowerAlnum, 3, 22), Eol>> >>

\* self.naming_rules: category -> the pattern (its text, and the pattern itself)
naming_rules ==
  [resource_group   |-> [text |-> <<"^","r","g","-","[","a","-","z","0","-","9","-","]","+","$">>, pattern |-> PrefixDashPattern(<<"r","g","-">>)],
   storage_account  |-> [text |-> <<"^","s","t","[","a","-","z","0","-","9","]","{","3",",","2","2","}","$">>, pattern |-> StorageAccountPattern],
   key_vault        |-> [text |-> <<"^","k","v","-","[","a","-","z","0","-","9","-","]","+","$">>, pattern |-> PrefixDashPattern(<<"k","v","-">>)],
   app_service      |-> [text |-> <<"^","a","p","p","-","[","a","-","z","0","-","9","-","]","+","$">>, pattern |-> PrefixDashPattern(<<"a","p","p","-">>)],
   app_service_plan |-> [text |-> <<"^","a","s","p","-","[","a","-","z","0","-","9","-","]","+","$">>, pattern |-> PrefixDashPattern(<<"a","s","p","-">>)],
   sql_server       |-> [text |-> <<"^","s","q","l","-","[","a","-","z","0","-","9","-","]","+","$">>, pattern |-> PrefixDashPattern(<<"s","q","l","-">>)],
   cosmos_db        |-> [text |-> <<"^","c","o","s","m","o","s","-","[","a","-","z","0","-","9","-","]","+","$">>, pattern |-> PrefixDashPattern(<<"c","o","s","m","o","s","-">>)]]


(***************************************************************************)
(* The patterns and tables the checkers hold as local literals.            *)
(***************************************************************************)
\* r"resource\s+(\w+)\s+'([^']+)'\s+=\s+{"
resource_pattern ==
  <<Lit(<<"r","e","s","o","u","r","c","e">>), Spaces, Open, Set(WordChars, 1, Inf), Close, Spaces,
    Lit(<<"'">>), Open, NotSet({"'"}, 1, Inf), Close, Lit(<<"'">>), Spaces, Lit(<<"=">>), Spaces, Lit(<<"{">>)>>

\* f"name:\\s*'([^']+)'"
name_pattern ==
  <<Lit(<<"n","a","m","e",":">>), Set(Whitespace, 0, Inf), Lit(<<"'">>), Open, NotSet({"'"}, 1, Inf), Close, Lit(<<"'">>)>>

type_mapping ==
  (<<"M","i","c","r","o","s","o","f","t",".","R","e","s","o","u","r","c","e","s","/","r","e","s","o","u","r","c","e","G","r","o","u","p","s">> :> "resource_group")
  @@ (<<"M","i","c","r","o","s","o","f","t",".","S","t","o","r","a","g","e","/","s","t","o","r","a","g","e","A","c","c","o","u","n","t","s">> :> "storage_account")
  @@ (<<"M","i","c","r","o","s","o","f","t",".","K","e","y","V","a","u","l","t","/","v","a","u","l","t","s">> :> "key_vault")
  @@ (<<"M","i","c","r","o","s","o","f","t",".","W","e","b","/","s","i","t","e","s">> :> "app_service")
  @@ (<<"M","i","c","r","o","s","o","f","t",".","W","e","b","/","s","e","r","v","e","r","f","a","r","m","s">> :> "app_service_plan")
  @@ (<<"M","i","c","r","o","s","o","f","t",".","S","q","l","/","s","e","r","v","e","r","s">> :> "sql_server")
  @@ (<<"M","i","c","r","o","s","o","f","t",".","D","o","c","u","m","e","n","t","D","B","/","d","a","t","a","b","a","s","e","A","c","c","o","u","n","t","s">> :> "cosmos_db")

Colon == Set({":", "="}, 1, 1)

Quote == Set({"'", "\""}, 1, 1)

\* keyword.*[:=].*['"][^'"]+['"], the pattern without the lower limit
HardcodedPatternAnyLength(keyword, min) ==
  << <<Lit(keyword), Star, Colon, Star, Quote, NotSet({"'", "\""}, 1, Inf), Quote>> >>

\* keyword.*[:=].*['"][^'"]{min,}['"]
HardcodedPattern(keyword, min) ==
  << <<Lit(keyword), Star, Colon, Star, Quote, NotSet({"'", "\""}, min, Inf), Quote>> >>

hardcoded_patterns == <<
  [pattern |-> HardcodedPattern(<<"p","a","s","s","w","o","r","d">>, 8), message |-> "Possible hardcoded password"],
  [pattern |-> HardcodedPattern(<<"c","o","n","n","e","c","t","i","o","n","S","t","r","i","n","g">>, 1), message |-> "Possible hardcoded connection string"],
  [pattern |-> HardcodedPattern(<<"a","p","i","K","e","y">>, 1), message |-> "Possible hardcoded API key"],
  [pattern |-> HardcodedPattern(<<"s","e","c","r","e","t">>, 1), message |-> "Possible hardcoded secret"],
  [pattern |-> HardcodedPattern(<<"t","o","k","e","n">>, 1), message |-> "Possible hardcoded token"] >>

\* the strings _check_resource_dependencies looks for with `in`
KeyVaultType == <<"M","i","c","r","o","s","o","f","t",".","K","e","y","V","a","u","l","t","/","v","a","u","l","t","s">>

WebSiteType == <<"M","i","c","r","o","s","o","f","t",".","W","e","b","/","s","i","t","e","s">>

ContainerGroupType == <<"M","i","c","r","o","s","o","f","t",".","C","o","n","t","a","i","n","e","r","I","n","s","t","a","n","c","e","/","c","o","n","t","a","i","n","e","r","G","r","o","u","p","s">>

AccessPoliciesKeyword == <<"a","c","c","e","s","s","P","o","l","i","c","i","e","s">>

VNetKeyword == <<"v","n","e","t","R","o","u","t","e","A","l","l","E","n","a","b","l","e","d">>

(***************************************************************************)
(* Inputs: the command line and the files it names.                        *)
(***************************************************************************)
\* the most file arguments on a command line
MaxArgs == 2

\* sys.argv[0]
Script == <<"a","z","u","r","e","-","c","o","n","f","i","g","-","c","h","e","c","k",".","p","y">>

TemplatePaths == {<<"a",".","b","i","c","e","p">>, <<"b",".","b","i","c","e","p">>}

OtherPaths == {<<"a",".","j","s","o","n">>, <<"b","i","c","e","p">>}

Paths == TemplatePaths \cup OtherPaths

\* two lines that satisfy both required security rules
Https == <<"s","u","p","p","o","r","t","s","H","t","t","p","s","T","r","a","f","f","i","c","O","n","l","y",":"," ","t","r","u","e","\n","h","t","t","p","s","O","n","l","y",":"," ","t","r","u","e","\n">>

StorageDecl == <<"r","e","s","o","u","r","c","e"," ","s","a"," ","'","M","i","c","r","o","s","o","f","t",".","S","t","o","r","a","g","e","/","s","t","o","r","a","g","e","A","c","c","o","u","n","t","s","'"," ","="," ","{","\n">>

KeyVaultDecl == <<"r","e","s","o","u","r","c","e"," ","k","v"," ","'","M","i","c","r","o","s","o","f","t",".","K","e","y","V","a","u","l","t","/","v","a","u","l","t","s","'"," ","="," ","{","\n"," "," ","n","a","m","e",":"," ","'","k","v","-","a","'","\n","}","\n">>

WebDecl == <<"r","e","s","o","u","r","c","e"," ","w","e","b"," ","'","M","i","c","r","o","s","o","f","t",".","W","e","b","/","s","i","t","e","s","'"," ","="," ","{","\n"," "," ","n","a","m","e",":"," ","'","a","p","p","-","a","'","\n","}","\n">>

DocClean == Https

DocEmpty == <<>>

DocNoHttpsOnly == <<"s","u","p","p","o","r","t","s","H","t","t","p","s","T","r","a","f","f","i","c","O","n","l","y",":"," ","t","r","u","e","\n">>

DocNsg == Https \o <<"s","e","c","u","r","i","t","y","R","u","l","e","s",":"," ","[","{","a","c","c","e","s","s",":"," ","'","A","l","l","o","w","'",","," ","s","r","c",":"," ","'","*","'",","," ","d","s","t",":"," ","'","*","'","}","]">>

DocSqlFirewall == Https \o <<"f","i","r","e","w","a","l","l","R","u","l","e","s",":"," ","{","s","t","a","r","t","I","p","A","d","d","r","e","s","s",":"," ","'","0",".","0",".","0",".","0","'",","," ","e","n","d","I","p","A","d","d","r","e","s","s",":"," ","'","2","5","5",".","2","5","5",".","2","5","5",".","2","5","5","'","}">>

DocPolicies == <<"a","c","c","e","s","s","P","o","l","i","c","i","e","s",":"," ","[","{","p","e","r","m","i","s","s","i","o","n","s",":"," ","{","s","e","c","r","e","t","s",":"," ","[","'","g","e","t","'",","," ","'","l","i","s","t","'","]","}","}","]","\n","i","d","e","n","t","i","t","y",":"," ","{","t","y","p","e",":"," ","'","S","y","s","t","e","m","A","s","s","i","g","n","e","d","'","}">>

DocPasswordLong == <<"p","a","s","s","w","o","r","d"," ","="," ","\"","a","b","c","d","e","f","g","h","\"">>

DocPasswordShort == <<"p","a","s","s","w","o","r","d"," ","="," ","\"","s","h","o","r","t","\"">>

DocPasswordSeven == Https \o <<"P","a","s","s","w","o","r","d",":"," ","'","a","b","c","d","e","f","g","'">>

\* eight characters between two literals, none inside one
DocPasswordSplit == Https \o <<"p","a","s","s","w","o","r","d",":"," ","'","a","b","'"," ","+"," ","x","x","x","x"," ","+"," ","'","c","d","'">>

\* the value on the line after the keyword
DocPasswordNextLine == Https \o <<"p","a","s","s","w","o","r","d",":","\n"," "," ","'","a","b","c","d","e","f","g","h","'">>

DocSecrets == Https \o <<"a","p","i","K","e","y",":"," ","'","k","'","\n","t","o","k","e","n"," ","="," ","\"","t","\"","\n","T","O","K","E","N"," ","="," ","\"","u","\"","\n","c","o","n","n","e","c","t","i","o","n","S","t","r","i","n","g",":"," ","'","c","'">>

DocStorageSt123 == StorageDecl \o <<" "," ","n","a","m","e",":"," ","'","s","t","1","2","3","'","\n","}">>

DocStorageStorage1 == StorageDecl \o <<" "," ","n","a","m","e",":"," ","'","s","t","o","r","a","g","e","1","'","\n","}">>

DocStorageSt12 == StorageDecl \o <<" "," ","n","a","m","e",":"," ","'","s","t","1","2","'","\n","}">>

DocStorageUpper == Https \o StorageDecl \o <<" "," ","n","a","m","e",":"," ","'","s","t","A","B","C","'","\n","}">>

DocStorageNoName == StorageDecl \o <<"}">>

DocUnmapped == <<"r","e","s","o","u","r","c","e"," ","v","n","e","t"," ","'","M","i","c","r","o","s","o","f","t",".","N","e","t","w","o","r","k","/","v","i","r","t","u","a","l","N","e","t","w","o","r","k","s","'"," ","="," ","{","\n"," "," ","n","a","m","e",":"," ","'","B","A","D","'","\n","}">>

DocKvWeb == KeyVaultDecl \o WebDecl

DocKvWebPolicies == DocKvWeb \o <<"a","c","c","e","s","s","P","o","l","i","c","i","e","s",":"," ","[","]">>

DocWebKv == Https \o WebDecl \o KeyVaultDecl \o <<"v","n","e","t","R","o","u","t","e","A","l","l","E","n","a","b","l","e","d",":"," ","t","r","u","e">>

DocKvContainer == KeyVaultDecl \o <<"r","e","s","o","u","r","c","e"," ","c","g"," ","'","M","i","c","r","o","s","o","f","t",".","C","o","n","t","a","i","n","e","r","I","n","s","t","a","n","c","e","/","c","o","n","t","a","i","n","e","r","G","r","o","u","p","s","'"," ","="," ","{","\n","}">>

DocWebVnet == Https \o WebDecl \o <<"v","n","e","t","R","o","u","t","e","A","l","l","E","n","a","b","l","e","d",":"," ","t","r","u","e">>

DocWebStorage == WebDecl \o DocStorageSt123

Documents ==
  {DocClean, DocEmpty, DocNoHttpsOnly, DocNsg, DocSqlFirewall, DocPolicies,
   DocPasswordLong, DocPasswordShort, DocPasswordSeven, DocPasswordSplit, DocPasswordNextLine,
   DocSecrets,
   DocStorageSt123, DocStorageStorage1, DocStorageSt12, DocStorageUpper, DocStorageNoName,
   DocUnmapped, DocKvWeb, DocKvWebPolicies, DocWebKv, DocKvContainer, DocWebVnet, DocWebStorage}

\* str(e) of the exceptions open() and f.read() raise
ReadErrors ==
  {<<"[","E","r","r","n","o"," ","2","]"," ","N","o"," ","s","u","c","h"," ","f","i","l","e"," ","o","r"," ","d","i","r","e","c","t","o","r","y">>, <<"'","u","t","f","-","8","'"," ","c","o","d","e","c"," ","c","a","n","'","t"," ","d","e","c","o","d","e"," ","b","y","t","e"," ","0","x","f","f">>}

Readable(content) == [readable |-> TRUE, content |-> content, error |-> <<>>]

Unreadable(error) == [readable |-> FALSE, content |-> <<>>, error |-> error]

FileStates == {Readable(d) : d \in Documents} \cup {Unreadable(e) : e \in ReadErrors}

\* what a file that is no template, or is not named on the command line, holds
DefaultFile == Readable(DocPasswordLong)

Range(seq) == {seq[k] : k \in 1..Len(seq)}

\* sys.argv: the script and at most MaxArgs arguments
ArgLists == {<<Script>> \o args : args \in UNION {[1..n -> Paths] : n \in 0..MaxArgs}}

\* the files: every state of the templates the command line names
FileSystems(args) ==
  LET named == TemplatePaths \cap Range(args)
  IN  {[p \in Paths |-> IF p \in named THEN g[p] ELSE DefaultFile] : g \in [named -> FileStates]}

(***************************************************************************)
(* The searches of the checkers are pure functions of the text.  They are  *)
(* tabulated once for the documents of the model and looked up afterwards. *)
(***************************************************************************)
\* every (pattern, flags) the checkers hand to re.search
Queries ==
  {[pattern |-> security_rules[k].pattern, flags |-> IgnoreCaseDotAll] : k \in 1..Len(security_rules)}
  \cup {[pattern |-> hardcoded_patterns[k].pattern, flags |-> IgnoreCase] : k \in 1..Len(hardcoded_patterns)}

Needles == {KeyVaultType, WebSiteType, ContainerGroupType, AccessPoliciesKeyword, VNetKeyword}

SearchTable == [d \in Documents |-> [q \in Queries |-> Search(q.pattern, d, q.flags)]]

FindAllTable == [d \in Documents |-> FindAll(resource_pattern, d, NoFlags)]

NameTable == [d \in Documents |-> SearchFrom(name_pattern, d, 0, NoFlags)]

ContainsTable == [d \in Documents |-> {x \in Needles : Contains(d, x)}]

\* bool(re.search(pattern, text, flags))
re_search(pattern, text, flags) ==
  IF text \in Documents /\ [pattern |-> pattern, flags |-> flags] \in Queries
  THEN SearchTable[text][[pattern |-> pattern, flags |-> flags]]
  ELSE Search(pattern, text, flags)

\* re.findall(resource_pattern, text)
re_findall_resources(text) ==
  IF text \in Documents THEN FindAllTable[text] ELSE FindAll(resource_pattern, text, NoFlags)

\* re.search(name_pattern, text)
re_search_name(text) ==
  IF text \in Documents THEN NameTable[text] ELSE SearchFrom(name_pattern, text, 0, NoFlags)

\* needle in text
In(needle, text) ==
  IF text \in Documents /\ needle \in Needles THEN needle \in ContainsTable[text]
  ELSE Contains(text, needle)

(***************************************************************************)
(* Findings.  A finding is the f-string appended to a bucket: the message  *)
(* template and the values formatted into it.  self is the checker object: *)
(* [errors, warnings].                                                     *)
(***************************************************************************)
\* f"{file_path}: {message}"
RuleFinding(file_path, message) ==
  [format |-> "{file_path}: {message}", file_path |-> file_path, message |-> message, args |-> <<>>]

\* f"Error reading {file_path}: {str(e)}"
ReadFinding(file_path, reason) ==
  [format |-> "Error reading {file_path}: {str(e)}", file_path |-> file_path,
   message |-> "", args |-> <<reason>>]

\* f"{file_path}: Resource '{resource_name}' of type '{resource_type}' "
\* f"should follow naming convention: {pattern}"
NamingFinding(file_path, resource_name, resource_type, pattern) ==
  [format |-> "{file_path}: Resource '{resource_name}' of type '{resource_type}' should follow naming convention: {pattern}",
   file_path |-> file_path, message |-> "", args |-> <<resource_name, resource_type, pattern>>]

\* self.errors.insert(0, finding) in place of self.errors.append(finding)
InsertError(self, finding) == [self EXCEPT !.errors = <<finding>> \o @]

AppendError(self, finding) == [self EXCEPT !.errors = Append(@, finding)]

AppendWarning(self, finding) == [self EXCEPT !.warnings = Append(@, finding)]

(***************************************************************************)
(* _check_security_rules                                                   *)
(***************************************************************************)
\* the body of the for loop, had it treated every rule that is not inverted as
\* required (elif not matches:)
SecurityRuleStepAllRequired(self, rule_config, content, file_path) ==
  LET matches == re_search(rule_config.pattern, content, IgnoreCaseDotAll)
      record  == IF rule_config.severity = "error"
                 THEN AppendError(self, RuleFinding(file_path, rule_config.message))
                 ELSE AppendWarning(self, RuleFinding(file_path, rule_config.message))
  IN  IF Get(rule_config, "invert", FALSE)
      THEN IF matches THEN record ELSE self
      ELSE IF ~matches THEN record ELSE self

\* the body of the for loop, for one rule
SecurityRuleStep(self, rule_config, content, file_path) ==
  LET pattern  == rule_config.pattern
      message  == rule_config.message
      severity == rule_config.severity
      invert   == Get(rule_config, "invert", FALSE)
      required == Get(rule_config, "required", FALSE)
      matches  == re_search(pattern, content, IgnoreCaseDotAll)
      record   == IF severity = "error"
                  THEN AppendError(self, RuleFinding(file_path, message))
                  ELSE AppendWarning(self, RuleFinding(file_path, message))
  IN  IF invert
      THEN IF matches THEN record ELSE self
      ELSE IF ~matches /\ required THEN record ELSE self

RECURSIVE SecurityRulesFrom(_, _, _, _)
SecurityRulesFrom(self, k, content, file_path) ==
  IF k > Len(security_rules) THEN self
  ELSE SecurityRulesFrom(SecurityRuleStep(self, security_rules[k], content, file_path),
                         k + 1, content, file_path)

_check_security_rules(self, content, file_path) == SecurityRulesFrom(self, 1, content, file_path)

(***************************************************************************)
(* _check_naming_conventions                                               *)
(***************************************************************************)
\* the name: property searched from the resource's own declaration on, not in
\* the whole document
NameMatchScoped(content, resource) ==
  LET decl == SearchFrom(<<Lit(<<"r","e","s","o","u","r","c","e"," ">> \o resource[1])>>, content, 0, NoFlags)
  IN  IF decl.ok THEN SearchFrom(name_pattern, content, decl.end, NoFlags) ELSE NoMatch

\* re.search(name_pattern, content): searched in the whole document
NameMatch(content, resource) == re_search_name(content)

\* the body of the for loop, for one (resource_name, resource_type)
NamingStep(self, resource, content, file_path) ==
  LET resource_name == resource[1]
      resource_type == resource[2]
  IN  IF resource_type \in DOMAIN type_mapping /\ type_mapping[resource_type] \in DOMAIN naming_rules
      THEN LET rule       == naming_rules[type_mapping[resource_type]]
               name_match == NameMatch(content, resource)
           IN  IF name_match.ok /\ ~Match(rule.pattern, Group(content, name_match, 1), NoFlags)
               THEN AppendWarning(self, NamingFinding(file_path, resource_name, resource_type, rule.text))
               ELSE self
      ELSE self

RECURSIVE NamingFrom(_, _, _, _, _)
NamingFrom(self, resources, k, content, file_path) ==
  IF k > Len(resources) THEN self
  ELSE NamingFrom(NamingStep(self, resources[k], content, file_path), resources, k + 1, content, file_path)

_check_naming_conventions(self, content, file_path) ==
  NamingFrom(self, re_findall_resources(content), 1, content, file_path)

(***************************************************************************)
(* _check_hardcoded_values                                                 *)
(***************************************************************************)
\* the body of the for loop, for one (pattern, message)
HardcodedStep(self, entry, content, file_path) ==
  IF re_search(entry.pattern, content, IgnoreCase)
  THEN AppendError(self, RuleFinding(file_path, entry.message))
  ELSE self

RECURSIVE HardcodedFrom(_, _, _, _)
HardcodedFrom(self, k, content, file_path) ==
  IF k > Len(hardcoded_patterns) THEN self
  ELSE HardcodedFrom(HardcodedStep(self, hardcoded_patterns[k], content, file_path),
                     k + 1, content, file_path)

_check_hardcoded_values(self, content, file_path) == HardcodedFrom(self, 1, content, file_path)

(***************************************************************************)
(* _check_resource_dependencies                                            *)
(***************************************************************************)
KeyVaultMessage == "Resources using Key Vault should have proper access policies defined"

VNetMessage == "App Services should consider VNet integration for enhanced security"

\* the Key Vault check without its test for the accessPolicies keyword
KeyVaultDependencyAlways(self, content, file_path) ==
  IF In(KeyVaultType, content) /\ (In(WebSiteType, content) \/ In(ContainerGroupType, content))
  THEN AppendWarning(self, RuleFinding(file_path, KeyVaultMessage))
  ELSE self

\* if 'Microsoft.KeyVault/vaults' in content: ...
KeyVaultDependency(self, content, file_path) ==
  IF In(KeyVaultType, content)
  THEN IF In(WebSiteType, content) \/ In(ContainerGroupType, content)
       THEN IF ~In(AccessPoliciesKeyword, content)
            THEN AppendWarning(self, RuleFinding(file_path, KeyVaultMessage))
            ELSE self
       ELSE self
  ELSE self

\* if 'Microsoft.Web/sites' in content: ...
NetworkDependency(self, content, file_path) ==
  IF In(WebSiteType, content)
  THEN IF ~In(VNetKeyword, content)
       THEN AppendWarning(self, RuleFinding(file_path, VNetMessage))
       ELSE self
  ELSE self

_check_resource_dependencies(self, content, file_path) ==
  NetworkDependency(KeyVaultDependency(self, content, file_path), content, file_path)

(***************************************************************************)
(* The state of one run of main().                                         *)
(***************************************************************************)
VARIABLES
  argv,         \* sys.argv
  fs,           \* the files, by path
  pc,           \* where the run is
  i,            \* the index in sys.argv of file_path in main's for loop
  errors,       \* checker.errors
  warnings,     \* checker.warnings
  all_passed,   \* main's all_passed
  content,      \* check_file's content
  ret,          \* the value check_file returned last
  success,      \* main's success
  opened,       \* the paths handed to open(), in order
  exit_status   \* <<>> while running, <<code>> after sys.exit(code)

vars == <<argv, fs, pc, i, errors, warnings, all_passed, content, ret, success, opened, exit_status>>

self == [errors |-> errors, warnings |-> warnings]

file_path == argv[i]

Init ==
  /\ argv \in ArgLists
  /\ fs \in FileSystems(argv)
  /\ pc = "main"
  /\ i = 1
  /\ errors = <<>>
  /\ warnings = <<>>
  /\ all_passed = TRUE
  /\ content = <<>>
  /\ ret = TRUE
  /\ success = TRUE
  /\ opened = <<>>
  /\ exit_status = <<>>

\* main: if len(sys.argv) < 2: print usage; sys.exit(1)
MainUsage ==
  /\ pc = "main"
  /\ Len(argv) < 2
  /\ exit_status' = <<1>>
  /\ pc' = "exited"
  /\ UNCHANGED <<argv, fs, i, errors, warnings, all_passed, content, ret, success, opened>>

\* main: checker = AzureConfigChecker(); all_passed = True; the for loop starts
MainStart ==
  /\ pc = "main"
  /\ ~(Len(argv) < 2)
  /\ errors' = <<>>
  /\ warnings' = <<>>
  /\ all_passed' = TRUE
  /\ i' = 2
  /\ pc' = "for"
  /\ UNCHANGED <<argv, fs, content, ret, success, opened, exit_status>>

\* the extension test, had it been file_path.endswith('bicep'), without the dot
IsTemplateNoDot(path) == EndsWith(path, <<"b","i","c","e","p">>)

\* file_path.endswith('.bicep')
IsTemplate(path) == EndsWith(path, <<".","b","i","c","e","p">>)

\* main: if not file_path.endswith('.bicep'): continue
MainSkip ==
  /\ pc = "for"
  /\ i <= Len(argv)
  /\ ~IsTemplate(file_path)
  /\ i' = i + 1
  /\ UNCHANGED <<argv, fs, pc, errors, warnings, all_passed, content, ret, success, opened, exit_status>>

\* check_file: open(file_path) and f.read() succeed
CheckFileRead ==
  /\ pc = "for"
  /\ i <= Len(argv)
  /\ IsTemplate(file_path)
  /\ fs[file_path].readable
  /\ opened' = Append(opened, file_path)
  /\ content' = fs[file_path].content
  /\ pc' = "security"
  /\ UNCHANGED <<argv, fs, i, errors, warnings, all_passed, ret, success, exit_status>>

\* check_file without its try/except: the exception of open() ends the run
CheckFileRaise ==
  /\ pc = "for"
  /\ i <= Len(argv)
  /\ EndsWith(file_path, <<".","b","i","c","e","p">>)
  /\ ~fs[file_path].readable
  /\ opened' = Append(opened, file_path)
  /\ exit_status' = <<1>>
  /\ pc' = "exited"
  /\ UNCHANGED <<argv, fs, i, errors, warnings, all_passed, content, ret, success>>

\* check_file: open(file_path) or f.read() raises; the except branch
CheckFileExcept ==
  /\ pc = "for"
  /\ i <= Len(argv)
  /\ IsTemplate(file_path)
  /\ ~fs[file_path].readable
  /\ opened' = Append(opened, file_path)
  /\ errors' = AppendError(self, ReadFinding(file_path, fs[file_path].error)).errors
  /\ ret' = FALSE
  /\ pc' = "returned"
  /\ UNCHANGED <<argv, fs, i, warnings, all_passed, content, success, exit_status>>

\* one checker of check_file applied to the content, then on to the next one
Checker(at, result, next) ==
  /\ pc = at
  /\ LET checker == result
     IN  /\ errors' = checker.errors
         /\ warnings' = checker.warnings
  /\ pc' = next
  /\ UNCHANGED <<argv, fs, i, all_passed, content, ret, success, opened, exit_status>>

CheckSecurity == Checker("security", _check_security_rules(self, content, file_path), "naming")

CheckNaming == Checker("naming", _check_naming_conventions(self, content, file_path), "hardcoded")

CheckHardcoded == Checker("hardcoded", _check_hardcoded_values(self, content, file_path), "dependencies")

CheckDependencies ==
  Checker("dependencies", _check_resource_dependencies(self, content, file_path), "return")

\* len(self.errors) == 0
NoErrors(bucket) == Len(bucket) = 0

\* check_file, had it returned whether this file added no error
CheckFileReturnOwn ==
  /\ pc = "return"
  /\ ret' = NoErrors(SelectSeq(errors, LAMBDA f : f.file_path = argv[i]))
  /\ pc' = "returned"
  /\ UNCHANGED <<argv, fs, i, errors, warnings, all_passed, content, success, opened, exit_status>>

\* check_file: return len(self.errors) == 0
CheckFileReturn ==
  /\ pc = "return"
  /\ ret' = NoErrors(errors)
  /\ pc' = "returned"
  /\ UNCHANGED <<argv, fs, i, errors, warnings, all_passed, content, success, opened, exit_status>>

\* main: if not checker.check_file(file_path): all_passed = False; next file_path
MainAfterCheck ==
  /\ pc = "returned"
  /\ all_passed' = IF ~ret THEN FALSE ELSE all_passed
  /\ i' = i + 1
  /\ pc' = "for"
  /\ UNCHANGED <<argv, fs, errors, warnings, content, ret, success, opened, exit_status>>

\* print_results, had it returned the condition of its success marker
\* (if not self.errors and not self.warnings) instead of len(self.errors) == 0
print_results_marker(checker) == NoErrors(checker.errors) /\ NoErrors(checker.warnings)

\* print_results: what it returns (it prints the buckets and changes nothing)
print_results(checker) == NoErrors(checker.errors)

\* main: success = checker.print_results(), after the for loop
MainReport ==
  /\ pc = "for"
  /\ i > Len(argv)
  /\ success' = print_results(self)
  /\ pc' = "report"
  /\ UNCHANGED <<argv, fs, i, errors, warnings, all_passed, content, ret, opened, exit_status>>

\* the status main exits with after the report
ExitStatus(ok) == IF ~ok THEN 1 ELSE 0

\* main: if not success: print tips; sys.exit(1)   else sys.exit(0)
MainExit ==
  /\ pc = "report"
  /\ exit_status' = <<ExitStatus(success)>>
  /\ pc' = "exited"
  /\ UNCHANGED <<argv, fs, i, errors, warnings, all_passed, content, ret, success, opened>>

Next ==
  \/ MainUsage
  \/ MainStart
  \/ MainSkip
  \/ CheckFileRead
  \/ CheckFileExcept
  \/ CheckSecurity
  \/ CheckNaming
  \/ CheckHardcoded
  \/ CheckDependencies
  \/ CheckFileReturn
  \/ MainAfterCheck
  \/ MainReport
  \/ MainExit

Spec == Init /\ [][Next]_vars

(***************************************************************************)
(* Vocabulary of the properties.                                           *)
(***************************************************************************)
IsPrefix(a, b) == Len(a) <= Len(b) /\ SubSeq(b, 1, Len(a)) = a

\* what a step appended to a bucket
Added(before, after) == SubSeq(after, Len(before) + 1, Len(after))

\* how often x occurs in seq
Count(seq, x) == Cardinality({n \in 1..Len(seq) : seq[n] = x})

\* the file arguments, sys.argv[1:]
Args == Tail(argv)

IsTemplatePath(path) == path \in TemplatePaths

\* the arguments ending in .bicep, in argument order
TemplateArgs == SelectSeq(Args, IsTemplatePath)

Exited == pc = "exited"

\* main got past the usage check and has exited
RanToEnd == Exited /\ Len(Args) >= 1

\* C1: with at least one argument, the exit status is 0 exactly when the error
\* bucket is empty at the end of the run and 1 otherwise, whatever the warning
\* bucket holds.
C1_ExitStatus ==
  RanToEnd => exit_status = <<IF errors = <<>> THEN 0 ELSE 1>>

\* a run that exits 0 with warnings recorded
C1_Witness == RanToEnd /\ exit_status = <<0>> /\ warnings # <<>>

\* C2 as stated: with no argument ending in .bicep (the empty list included) the
\* run exits 1 and opens no file.
C2_Original ==
  (Exited /\ TemplateArgs = <<>>) => (exit_status = <<1>> /\ opened = <<>>)

\* C2 amended: with no argument ending in .bicep no file is opened; the exit
\* status is 1 for the empty argument list and 0 for a non-empty one.
C2_NoTemplateArgument ==
  (Exited /\ TemplateArgs = <<>>) =>
    (opened = <<>> /\ exit_status = <<IF Args = <<>> THEN 1 ELSE 0>>)

\* a run with arguments, none of them a template, that exits 0
C2_Witness == Exited /\ TemplateArgs = <<>> /\ Args # <<>> /\ exit_status = <<0>> /\ opened = <<>>

\* the templates named on the command line that cannot be read
UnreadableArgs == {path \in Range(TemplateArgs) : ~fs[path].readable}

\* the findings of a bucket that name the file
FindingsOf(bucket, path) == SelectSeq(bucket, LAMBDA f : f.file_path = path)

\* C3: a read failure appends exactly one error, naming the file and the reason,
\* and check_file returns False; the file gets no other finding; every template
\* argument is still opened, in order; the run exits 1.
C3_ReadFailure ==
  /\ (pc = "returned" /\ ~fs[argv[i]].readable) =>
       (/\ errors # <<>>
        /\ errors[Len(errors)] = ReadFinding(argv[i], fs[argv[i]].error)
        /\ ret = FALSE)
  /\ RanToEnd =>
       (/\ opened = TemplateArgs
        /\ \A path \in UnreadableArgs :
             /\ FindingsOf(warnings, path) = <<>>
             /\ Len(FindingsOf(errors, path)) = Count(Args, path)
             /\ Range(FindingsOf(errors, path)) = {ReadFinding(path, fs[path].error)}
        /\ UnreadableArgs # {} => exit_status = <<1>>)

\* an unreadable template followed by a readable one, both opened, exit 1
C3_Witness ==
  /\ Exited
  /\ Len(Args) = 2
  /\ Args[1] \in UnreadableArgs
  /\ Args[2] \in TemplatePaths \ UnreadableArgs
  /\ opened = Args
  /\ Len(errors) = 1
  /\ exit_status = <<1>>

Invert(rule) == "invert" \in DOMAIN rule /\ rule.invert

Required(rule) == "required" \in DOMAIN rule /\ rule.required

\* the rule is violated by the text: inverted and found, or required and not found
Violated(rule, text) ==
  LET found == re_search(rule.pattern, text, IgnoreCaseDotAll)
  IN  (Invert(rule) /\ found) \/ (~Invert(rule) /\ Required(rule) /\ ~found)

\* C4: _check_security_rules appends, for every rule of the catalog, one finding
\* when the rule is violated and none otherwise, to the errors for severity
\* error and to the warnings otherwise, and nothing else.
C4_SecurityRules ==
  [][pc = "security" =>
       /\ IsPrefix(errors, errors')
       /\ IsPrefix(warnings, warnings')
       /\ \A k \in 1..Len(security_rules) :
            LET rule    == security_rules[k]
                finding == RuleFinding(argv[i], rule.message)
                one     == IF Violated(rule, content) THEN 1 ELSE 0
            IN  /\ Count(Added(errors, errors'), finding)
                     = IF rule.severity = "error" THEN one ELSE 0
                /\ Count(Added(warnings, warnings'), finding)
                     = IF rule.severity = "error" THEN 0 ELSE one
       /\ Len(Added(errors, errors')) + Len(Added(warnings, warnings'))
            = Cardinality({k \in 1..Len(security_rules) : Violated(security_rules[k], content)})
  ]_vars

\* after the security rules: an inverted rule found and a required rule not found,
\* both recorded as errors
C4_Witness ==
  /\ pc = "naming"
  /\ Violated(security_rules[5], content)
  /\ ~Violated(security_rules[2], content)
  /\ errors = <<RuleFinding(argv[i], security_rules[5].message)>>
  /\ warnings = <<>>

KeyVaultFinding(path) == RuleFinding(path, KeyVaultMessage)

VNetFinding(path) == RuleFinding(path, VNetMessage)

\* the text has a Key Vault type and a web-app type and no accessPolicies keyword
KeyVaultAndWebApp(text) ==
  In(KeyVaultType, text) /\ In(WebSiteType, text) /\ ~In(AccessPoliciesKeyword, text)

\* the dependency checker has just run on the text
AfterDependencies(text) == pc = "return" /\ content = text

\* C5 as stated: on a document with a Key Vault type and a web-app type and no
\* accessPolicies keyword, _check_resource_dependencies yields exactly one
\* warning; with the keyword added it does not yield the access-policy warning.
C5_Original ==
  [][pc = "dependencies" =>
       /\ KeyVaultAndWebApp(content) => Len(Added(warnings, warnings')) = 1
       /\ In(AccessPoliciesKeyword, content)
            => KeyVaultFinding(argv[i]) \notin Range(Added(warnings, warnings'))
  ]_vars

\* C5 amended: on such a document _check_resource_dependencies appends the
\* access-policy warning exactly once, followed by the VNet-integration warning
\* unless the document has the vnetRouteAllEnabled keyword, so one or two
\* warnings; on a document that has the accessPolicies keyword it does not
\* append the access-policy warning.
C5_KeyVaultDependency ==
  [][pc = "dependencies" =>
       /\ errors' = errors
       /\ KeyVaultAndWebApp(content) =>
            Added(warnings, warnings') =
              IF In(VNetKeyword, content)
              THEN <<KeyVaultFinding(argv[i])>>
              ELSE <<KeyVaultFinding(argv[i]), VNetFinding(argv[i])>>
       /\ In(AccessPoliciesKeyword, content)
            => KeyVaultFinding(argv[i]) \notin Range(Added(warnings, warnings'))
       /\ content = DocKvWeb
            => Added(warnings, warnings') = <<KeyVaultFinding(argv[i]), VNetFinding(argv[i])>>
       /\ content = DocKvWebPolicies => Added(warnings, warnings') = <<VNetFinding(argv[i])>>
       /\ content = DocWebKv => Added(warnings, warnings') = <<KeyVaultFinding(argv[i])>>
  ]_vars

\* the dependency checker has run on a document with both types and neither
\* keyword and left two warnings, and on one with the VNet keyword and left one
C5_Witness ==
  /\ AfterDependencies(DocWebKv)
  /\ i = 3
  /\ fs[argv[2]] = Readable(DocKvWeb)
  /\ Count(warnings, KeyVaultFinding(argv[2])) = 1
  /\ Count(warnings, VNetFinding(argv[2])) = 1
  /\ warnings[Len(warnings)] = KeyVaultFinding(argv[3])
  /\ Count(warnings, KeyVaultFinding(argv[3])) = 1
  /\ Count(warnings, VNetFinding(argv[3])) = 0

StorageType == <<"M","i","c","r","o","s","o","f","t",".","S","t","o","r","a","g","e","/","s","t","o","r","a","g","e","A","c","c","o","u","n","t","s">>

\* the naming warning of the storage account sa of the documents DocStorage...
StorageFinding(path) == NamingFinding(path, <<"s","a">>, StorageType, <<"^","s","t","[","a","-","z","0","-","9","]","{","3",",","2","2","}","$">>)

\* the naming checker has just run on the text
AfterNaming(text) == pc = "hardcoded" /\ content = text

\* C6 as stated: no warning for the name st123, a warning citing the pattern for
\* the name storage1.
C6_Original ==
  /\ AfterNaming(DocStorageSt123) => FindingsOf(warnings, argv[i]) = <<>>
  /\ AfterNaming(DocStorageStorage1) => StorageFinding(argv[i]) \in Range(warnings)

\* C6 amended: no warning for st123 and none for storage1 (both match
\* ^st[a-z0-9]{3,22}$); a warning citing the pattern for st12 and for stABC,
\* which do not match it.
C6_StorageNames ==
  /\ AfterNaming(DocStorageSt123) => FindingsOf(warnings, argv[i]) = <<>>
  /\ AfterNaming(DocStorageStorage1) => FindingsOf(warnings, argv[i]) = <<>>
  /\ (AfterNaming(DocStorageSt12) \/ AfterNaming(DocStorageUpper)) =>
       /\ FindingsOf(warnings, argv[i]) # <<>>
       /\ Range(FindingsOf(warnings, argv[i])) = {StorageFinding(argv[i])}

\* the naming checker has run on the declaration named storage1 and on one
\* named st12 in the same run: no warning for the first, one for the second
C6_Witness ==
  /\ AfterNaming(DocStorageSt12)
  /\ i = 3
  /\ fs[argv[2]] = Readable(DocStorageStorage1)
  /\ FindingsOf(warnings, argv[2]) = <<>>
  /\ warnings = <<StorageFinding(argv[3])>>

Quotes == {"'", "\""}

\* the text holds n or more characters, none a quote, between two quotes
HasQuotedRun(text, n) ==
  \E a \in 1..Len(text) : \E b \in (a + n + 1)..Len(text) :
    /\ text[a] \in Quotes
    /\ text[b] \in Quotes
    /\ \A c \in (a + 1)..(b - 1) : text[c] \notin Quotes

PasswordFinding(path) == RuleFinding(path, "Possible hardcoded password")

EmptyChecker == [errors |-> <<>>, warnings |-> <<>>]

\* the findings of one template on its own: the read error, or the four checkers
\* in the order security rules, naming conventions, hardcoded values, dependencies
FileFindings(path) ==
  IF ~fs[path].readable
  THEN [errors |-> <<ReadFinding(path, fs[path].error)>>, warnings |-> <<>>]
  ELSE _check_resource_dependencies(
         _check_hardcoded_values(
           _check_naming_conventions(
             _check_security_rules(EmptyChecker, fs[path].content, path),
             fs[path].content, path),
           fs[path].content, path),
         fs[path].content, path)

\* the concatenation of the files' findings over the template arguments, in order
AllFindings ==
  LET upto[n \in 0..Len(TemplateArgs)] ==
        IF n = 0 THEN EmptyChecker
        ELSE [errors   |-> upto[n - 1].errors \o FileFindings(TemplateArgs[n]).errors,
              warnings |-> upto[n - 1].warnings \o FileFindings(TemplateArgs[n]).warnings]
  IN  upto[Len(TemplateArgs)]

\* C8: no step removes, reorders or changes a finding of either bucket; at the
\* end each bucket is the concatenation of the files' findings over the
\* arguments ending in .bicep, in argument order; no other argument is opened.
C8_Buckets ==
  [][/\ IsPrefix(errors, errors')
     /\ IsPrefix(warnings, warnings')
     /\ (pc' = "exited" /\ Len(argv) >= 2) =>
          /\ errors' = AllFindings.errors
          /\ warnings' = AllFindings.warnings
          /\ opened' = TemplateArgs
  ]_vars

\* a run over a skipped argument and a template, or two templates, that left
\* findings of two checkers in both buckets
C8_Witness ==
  /\ Exited
  /\ Len(Args) = 2
  /\ Len(TemplateArgs) = 2
  /\ TemplateArgs[1] # TemplateArgs[2]
  /\ FindingsOf(errors, Args[1]) # <<>>
  /\ FindingsOf(warnings, Args[1]) # <<>>
  /\ Len(FindingsOf(errors, Args[2])) >= 2
  /\ Len(FindingsOf(warnings, Args[2])) >= 2

\* the declarations of the text whose type has a naming category
MappedDeclarations(text) ==
  SelectSeq(re_findall_resources(text), LAMBDA r : r[2] \in DOMAIN type_mapping)

\* the first name: property of the text fails the category's pattern
FirstNameFails(text, category) ==
  /\ re_search_name(text).ok
  /\ ~Match(naming_rules[category].pattern, Group(text, re_search_name(text), 1), NoFlags)

\* C9: _check_naming_conventions leaves the errors alone and appends, for each
\* declaration with a mapped type, in order, one warning exactly when the text
\* has a name: property and the first one fails the category's pattern.
C9_NamingConventions ==
  [][pc = "naming" =>
       /\ errors' = errors
       /\ IsPrefix(warnings, warnings')
       /\ Added(warnings, warnings') =
            LET decls == MappedDeclarations(content)
                failing == SelectSeq(decls, LAMBDA r : FirstNameFails(content, type_mapping[r[2]]))
            IN  [n \in 1..Len(failing) |->
                   NamingFinding(argv[i], failing[n][1], failing[n][2],
                                 naming_rules[type_mapping[failing[n][2]]].text)]
       /\ ~re_search_name(content).ok => warnings' = warnings
  ]_vars

\* the naming checker has run on a web app named app-a followed by a storage
\* account named st123: the storage account is judged by the name app-a
C9_Witness ==
  /\ AfterNaming(DocWebStorage)
  /\ warnings = <<StorageFinding(argv[i])>>

\* C10: check_file returns True exactly when the error bucket is empty at its end;
\* at the end of the run all_passed, the conjunction of the results, equals the
\* verdict of print_results, the error bucket being empty.
C10_Verdict ==
  /\ pc = "returned" => ret = (errors = <<>>)
  /\ (pc = "report" \/ RanToEnd) =>
       /\ all_passed = (errors = <<>>)
       /\ success = all_passed

\* check_file has returned False for a clean second template after a first one
\* with errors
C10_Witness ==
  /\ pc = "returned"
  /\ i = 3
  /\ fs[argv[2]].readable
  /\ fs[argv[3]] = Readable(DocClean)
  /\ ret = FALSE
====
